---- MODULE Spec2Model ----
(***************************************************************************)
(* Goal/card orchestration engine of orquestrator-agent (backend).         *)
(* The model follows backend/src/services/orchestrator_service.py,         *)
(* backend/src/repositories/card_repository.py,                            *)
(* backend/src/services/usage_checker_service.py and                       *)
(* backend/src/routes/{cards,live}.py.                                     *)
(*                                                                         *)
(* committed  : the rows visible to every session (last commit).           *)
(* store      : the rows as seen by the session of the cycle in flight;    *)
(*              equal to committed whenever no cycle is in flight.         *)
(* SQLite admits one writer: the cycle writes a log row in its READ step   *)
(* and keeps the write lock until commit or rollback, so the HTTP          *)
(* operations commit only while no cycle transaction is open.              *)
(***************************************************************************)
EXTENDS Integers, Sequences, FiniteSets, TLC

VARIABLES committed, store, pc, usage, think, act, calls, lastOp, apiOps,
          runner, recorded

vars == <<committed, store, pc, usage, think, act, calls, lastOp, apiOps,
          runner, recorded>>

\* ------------------------------------------------------------------ bounds
MaxGoals == 2
MaxCards == 2
MaxApiOps == 2

\* ------------------------------------------------------- program constants
LimitThreshold == 80
\* (session percent, daily percent) pairs `claude /usage` may report: below,
\* exactly at and above the threshold.
UsageSnapshots == {<<0, 0>>, <<LimitThreshold, 0>>, <<0, LimitThreshold + 5>>}

ColumnId == {"backlog", "plan", "in-progress", "test", "review", "done"}
AllColumns == ColumnId \cup {"implement", "archived", "cancelado"}

\* The table with one column skipped: backlog may also go straight to test.
ALLOWED_TRANSITIONS_SkipsPlan(col) ==
    CASE col = "backlog"     -> {"plan", "test", "cancelado"}
      [] col = "plan"        -> {"in-progress", "cancelado"}
      [] col = "in-progress" -> {"test", "cancelado"}
      [] col = "test"        -> {"review", "cancelado"}
      [] col = "review"      -> {"done", "cancelado"}
      [] col = "done"        -> {"archived", "cancelado"}
      [] col = "archived"    -> {"done"}
      [] OTHER               -> {}

\* done may be left for backlog again.
ALLOWED_TRANSITIONS_DoneReopens(col) ==
    CASE col = "backlog"     -> {"plan", "cancelado"}
      [] col = "plan"        -> {"in-progress", "cancelado"}
      [] col = "in-progress" -> {"test", "cancelado"}
      [] col = "test"        -> {"review", "cancelado"}
      [] col = "review"      -> {"done", "cancelado"}
      [] col = "done"        -> {"archived", "cancelado", "backlog"}
      [] col = "archived"    -> {"done"}
      [] col = "cancelado"   -> {}
      [] OTHER               -> {}

ALLOWED_TRANSITIONS(col) ==
    CASE col = "backlog"     -> {"plan", "cancelado"}
      [] col = "plan"        -> {"in-progress", "cancelado"}
      [] col = "in-progress" -> {"test", "cancelado"}
      [] col = "test"        -> {"review", "cancelado"}
      [] col = "review"      -> {"done", "cancelado"}
      [] col = "done"        -> {"archived", "cancelado"}
      [] col = "archived"    -> {"done"}
      [] col = "cancelado"   -> {}
      [] OTHER               -> {}

\* ------------------------------------------------------------ small helpers
Max2(a, b) == IF a >= b THEN a ELSE b

Range(s) == {s[i] : i \in 1..Len(s)}

MinOf(S) == CHOOSE x \in S : \A y \in S : x <= y

RECURSIVE SortedSeq(_)
SortedSeq(S) == IF S = {} THEN <<>> ELSE <<MinOf(S)>> \o SortedSeq(S \ {MinOf(S)})

\* ------------------------------------------------------------------- rows
NewGoal == [status |-> "pending", cards |-> <<>>, learning |-> FALSE]

\* The per-stage model settings of a card; the column defaults of the table.
DefaultModels ==
    [plan |-> "opus-4.5", implement |-> "opus-4.5", test |-> "opus-4.5",
     review |-> "opus-4.5"]

NewCard == [column |-> "backlog", dependencies |-> {}, spec_path |-> FALSE,
            deleted |-> FALSE, is_fix_card |-> FALSE, parent_card_id |-> 0,
            test_error_context |-> "none", models |-> DefaultModels]

DeletedCard == [NewCard EXCEPT !.deleted = TRUE]

EmptyStore == [goals |-> <<>>, cards |-> <<>>]

CardExists(cards, c) == c \in 1..Len(cards) /\ ~cards[c].deleted

\* ----------------------------------------------------------- usage checker
UsageInfo(s, d, safe, err) ==
    [session_used_percent |-> s, daily_used_percent |-> d,
     is_safe_to_execute |-> safe, error |-> err]

\* The verdict without the comparison against the threshold.
ParseUsageOutput_AlwaysSafe(session_percent, daily_percent) ==
    UsageInfo(session_percent, daily_percent, TRUE, "none")

ParseUsageOutput(session_percent, daily_percent) ==
    UsageInfo(session_percent, daily_percent,
              Max2(session_percent, daily_percent) < LimitThreshold, "none")

\* How the usage command may end: it exits with code 0 and its output is
\* parsed, it exits with another code, it times out, the command is not
\* found, or anything else is raised.
UsageCommandResults == {"ok", "exit_code", "timeout", "not_found", "exception"}

\* check_usage that takes a timeout for 'assume safe'.
CheckUsage_TimeoutIsSafe(result, session_percent, daily_percent) ==
    CASE result = "ok"        -> ParseUsageOutput(session_percent, daily_percent)
      [] result = "exit_code" -> UsageInfo(0, 0, FALSE, "exit_code")
      [] result = "timeout"   -> UsageInfo(0, 0, TRUE, "timeout")
      [] result = "not_found" -> UsageInfo(0, 0, TRUE, "not_found")
      [] OTHER                -> UsageInfo(0, 0, TRUE, "exception")

CheckUsage(result, session_percent, daily_percent) ==
    CASE result = "ok"        -> ParseUsageOutput(session_percent, daily_percent)
      [] result = "exit_code" -> UsageInfo(0, 0, FALSE, "exit_code")
      [] result = "timeout"   -> UsageInfo(0, 0, FALSE, "timeout")
      [] result = "not_found" -> UsageInfo(0, 0, TRUE, "not_found")
      [] OTHER                -> UsageInfo(0, 0, TRUE, "exception")

CheckUsageOutcomes ==
    {CheckUsage(r, p[1], p[2]) : r \in UsageCommandResults, p \in UsageSnapshots}

NoUsage == UsageInfo(0, 0, TRUE, "unchecked")

\* ---------------------------------------------------------- goal repository
GetActiveGoal(goals) ==
    LET A == {g \in 1..Len(goals) : goals[g].status = "active"}
    IN  IF A = {} THEN 0 ELSE MinOf(A)

GetPendingGoals(goals) ==
    SortedSeq({g \in 1..Len(goals) : goals[g].status = "pending"})

UpdateStatus(goals, g, st) == [goals EXCEPT ![g].status = st]

AddCard(goals, g, c) == [goals EXCEPT ![g].cards = Append(@, c)]

SetLearning(goals, g) == [goals EXCEPT ![g].learning = TRUE]

\* ---------------------------------------------------------- card repository
\* move without the SDLC validation.
Move_NoValidation(cards, c, new_column_id) ==
    IF c \notin 1..Len(cards) \/ cards[c].deleted
    THEN [cards |-> cards, card |-> 0, error |-> "not_found"]
    ELSE [cards |-> [cards EXCEPT ![c].column = new_column_id],
          card |-> c, error |-> "none"]

Move(cards, c, new_column_id) ==
    IF ~CardExists(cards, c)
    THEN [cards |-> cards, card |-> 0, error |-> "not_found"]
    ELSE IF new_column_id \notin ALLOWED_TRANSITIONS(cards[c].column)
    THEN [cards |-> cards, card |-> 0, error |-> "invalid_transition"]
    ELSE [cards |-> [cards EXCEPT ![c].column = new_column_id],
          card |-> c, error |-> "none"]

Update(cards, c, column_id, spec_path) ==
    IF ~CardExists(cards, c) THEN cards
    ELSE [cards EXCEPT
            ![c].column = IF column_id = "unset" THEN @ ELSE column_id,
            ![c].spec_path = IF spec_path THEN TRUE ELSE @]

Delete(cards, c) ==
    IF ~CardExists(cards, c) THEN cards ELSE [cards EXCEPT ![c] = DeletedCard]

UpdateSpecPath(cards, c) ==
    IF ~CardExists(cards, c) THEN cards ELSE [cards EXCEPT ![c].spec_path = TRUE]

UpdateDependencies(cards, c, deps) == [cards EXCEPT ![c].dependencies = deps]

\* ---------------------------------------------------------------- fix cards
\* Columns a card never leaves for a workable one by CardRepository.move.
TerminalColumns == {"done", "cancelado", "archived"}

ActiveFixCards(cards, parent_card_id) ==
    {c \in 1..Len(cards) :
        /\ ~cards[c].deleted
        /\ cards[c].is_fix_card
        /\ cards[c].parent_card_id = parent_card_id
        /\ cards[c].column \notin TerminalColumns}

\* 0 when the parent has no active fix card.
GetActiveFixCard(cards, parent_card_id) ==
    IF ActiveFixCards(cards, parent_card_id) = {} THEN 0
    ELSE MinOf(ActiveFixCards(cards, parent_card_id))

FixCard(parent, parent_card_id, error_info) ==
    [NewCard EXCEPT !.is_fix_card = TRUE,
                    !.parent_card_id = parent_card_id,
                    !.test_error_context = error_info,
                    !.models = parent.models]

\* create_fix_card that does not look for an active fix card first.
CreateFixCard_AlwaysCreates(cards, parent_card_id, error_info) ==
    IF ~CardExists(cards, parent_card_id)
    THEN [cards |-> cards, card |-> 0]
    ELSE [cards |-> Append(cards, FixCard(cards[parent_card_id], parent_card_id,
                                          error_info)),
          card |-> Len(cards) + 1]

\* create_fix_card whose fix card starts from the default model settings.
CreateFixCard_DefaultModels(cards, parent_card_id, error_info) ==
    IF ~CardExists(cards, parent_card_id)
    THEN [cards |-> cards, card |-> 0]
    ELSE IF GetActiveFixCard(cards, parent_card_id) # 0
    THEN [cards |-> cards, card |-> GetActiveFixCard(cards, parent_card_id)]
    ELSE [cards |-> Append(cards, FixCard(NewCard, parent_card_id, error_info)),
          card |-> Len(cards) + 1]

\* card = 0: no parent, nothing created.
CreateFixCard(cards, parent_card_id, error_info) ==
    IF ~CardExists(cards, parent_card_id)
    THEN [cards |-> cards, card |-> 0]
    ELSE IF GetActiveFixCard(cards, parent_card_id) # 0
    THEN [cards |-> cards, card |-> GetActiveFixCard(cards, parent_card_id)]
    ELSE [cards |-> Append(cards, FixCard(cards[parent_card_id], parent_card_id,
                                          error_info)),
          card |-> Len(cards) + 1]

\* --------------------------------------------------------- decision records
ThinkResult(decision, goal_id, card_ids, reason) ==
    [decision |-> decision, goal_id |-> goal_id, card_ids |-> card_ids,
     reason |-> reason]

NoThink == ThinkResult("none", 0, <<>>, "none")

ActResult(success, should_learn, learning, error) ==
    [success |-> success, should_learn |-> should_learn,
     learning |-> learning, error |-> error]

NoLearning == [kind |-> "none", id |-> 0, count |-> 0]

NoAct == ActResult(FALSE, FALSE, NoLearning, "unset")

\* ------------------------------------------------------------ cards status
GetCardsStatus(card_ids, cards) ==
    LET found == {c \in Range(card_ids) : CardExists(cards, c)}
        ids   == SelectSeq(card_ids, LAMBDA c : c \in found)
        DepsSatisfied(c) ==
            \A d \in cards[c].dependencies :
                d \in found /\ cards[d].column = "done"
        Status(c) ==
            [id |-> c,
             column |-> cards[c].column,
             dependencies |-> cards[c].dependencies,
             dependencies_satisfied |-> DepsSatisfied(c),
             ready_to_execute |->
                 cards[c].column \in {"backlog", "plan", "implement", "test", "review"}
                 /\ DepsSatisfied(c),
             needs_fix |-> FALSE]
    IN  [i \in 1..Len(ids) |-> Status(ids[i])]

\* -------------------------------------------------------------------- THINK
\* The last ready card instead of the first.
PickReady_Last(ready_cards) == ready_cards[Len(ready_cards)].id

\* The card EXECUTE_CARD names.
PickReady(ready_cards) == ready_cards[1].id

\* The decision of THINK for an active goal with cards, from the status list
\* of its cards.
ThinkCards(active_goal, cards_status, goals) ==
    LET failed_cards == SelectSeq(cards_status, LAMBDA c : c.needs_fix)
        ready_cards  == SelectSeq(cards_status, LAMBDA c : c.ready_to_execute)
        done_cards   == SelectSeq(cards_status,
                            LAMBDA c : c.column \in {"done", "completed"})
    IN  IF failed_cards # <<>>
        THEN [think |-> ThinkResult("raise", active_goal, <<>>, "type_error"),
              goals |-> goals]
        ELSE IF ready_cards # <<>>
        THEN [think |-> ThinkResult("execute_card", active_goal,
                                    <<PickReady(ready_cards)>>, "ready"),
              goals |-> goals]
        ELSE IF Len(done_cards) = Len(cards_status)
        THEN [think |-> ThinkResult("complete_goal", active_goal, <<>>, "all_done"),
              goals |-> goals]
        ELSE [think |-> ThinkResult("wait", active_goal, <<>>, "in_progress"),
              goals |-> goals]

\* THINK looking at the pending goals before the active one.
StepThink_PendingFirst(u, S) ==
    LET pending_goals == GetPendingGoals(S.goals) IN
    IF u.is_safe_to_execute /\ pending_goals # <<>>
    THEN [think |-> ThinkResult("decompose", pending_goals[1], <<>>, "activated"),
          goals |-> UpdateStatus(S.goals, pending_goals[1], "active")]
    ELSE [think |-> ThinkResult("wait", 0, <<>>, "nothing"), goals |-> S.goals]

\* Returns the ThinkResult and the goals as the step leaves them; "raise" is
\* the TypeError of ThinkResult(card_id=...), which is not a field.
\* THINK marking the active goal paused when usage is over the limit.
StepThink_PausesOnLimit(u, S) ==
    IF ~u.is_safe_to_execute
    THEN [think |-> ThinkResult("wait", 0, <<>>, "usage_limit"),
          goals |-> IF GetActiveGoal(S.goals) # 0
                    THEN UpdateStatus(S.goals, GetActiveGoal(S.goals), "paused")
                    ELSE S.goals]
    ELSE
    LET active_goal == GetActiveGoal(S.goals) IN
    IF active_goal # 0
    THEN LET card_ids == S.goals[active_goal].cards IN
         IF card_ids = <<>>
         THEN [think |-> ThinkResult("decompose", active_goal, <<>>, "no_cards"),
               goals |-> S.goals]
         ELSE ThinkCards(active_goal, GetCardsStatus(card_ids, S.cards), S.goals)
    ELSE LET pending_goals == GetPendingGoals(S.goals) IN
         IF pending_goals # <<>>
         THEN [think |-> ThinkResult("decompose", pending_goals[1], <<>>, "activated"),
               goals |-> UpdateStatus(S.goals, pending_goals[1], "active")]
         ELSE [think |-> ThinkResult("wait", 0, <<>>, "nothing"), goals |-> S.goals]

StepThink(u, S) ==
    IF ~u.is_safe_to_execute
    THEN [think |-> ThinkResult("wait", 0, <<>>, "usage_limit"), goals |-> S.goals]
    ELSE
    LET active_goal == GetActiveGoal(S.goals) IN
    IF active_goal # 0
    THEN LET card_ids == S.goals[active_goal].cards IN
         IF card_ids = <<>>
         THEN [think |-> ThinkResult("decompose", active_goal, <<>>, "no_cards"),
               goals |-> S.goals]
         ELSE ThinkCards(active_goal, GetCardsStatus(card_ids, S.cards), S.goals)
    ELSE LET pending_goals == GetPendingGoals(S.goals) IN
         IF pending_goals # <<>>
         THEN [think |-> ThinkResult("decompose", pending_goals[1], <<>>, "activated"),
               goals |-> UpdateStatus(S.goals, pending_goals[1], "active")]
         ELSE [think |-> ThinkResult("wait", 0, <<>>, "nothing"), goals |-> S.goals]

\* ---------------------------------------------------------------------- ACT
Call(kind, id) == [kind |-> kind, id |-> id]

\* The call of the Decomposer with the cards it returned.
DecomposerCall(goal_id, props) ==
    [kind |-> "decomposer", id |-> goal_id, cards |-> props]

Outcome(S, result, cs, commit) ==
    [store |-> S, act |-> result, calls |-> cs, commit |-> commit]

\* What the Decomposer may return: cards sorted by order, each with the order
\* indices it depends on (one index more than any card can carry).
Orders == 1..MaxCards
DepOrders == 1..(MaxCards + 1)
DecomposedCard == [order : Orders, dependencies : SUBSET DepOrders]

Proposals(room) ==
    {p \in UNION {[1..n -> DecomposedCard] : n \in 0..room} :
        \A i \in 1..Len(p) : \A j \in 1..Len(p) : i < j => p[i].order <= p[j].order}

\* order_to_id after the first pass: a later card with the same order wins.
OrderToId(props, base) ==
    [o \in {props[i].order : i \in 1..Len(props)} |->
        base + MinOf({i \in 1..Len(props) :
                        props[i].order = o
                        /\ \A j \in 1..Len(props) : props[j].order = o => j <= i})]

RECURSIVE FirstPass_NoAttach(_, _, _)
FirstPass_NoAttach(S, g, n) ==
    IF n = 0 THEN S
    ELSE LET T == FirstPass_NoAttach(S, g, n - 1)
         IN  [goals |-> T.goals, cards |-> Append(T.cards, NewCard)]

RECURSIVE FirstPass(_, _, _)
FirstPass(S, g, n) ==
    IF n = 0 THEN S
    ELSE LET T == FirstPass(S, g, n - 1)
             id == Len(T.cards) + 1
         IN  [goals |-> AddCard(T.goals, g, id), cards |-> Append(T.cards, NewCard)]

RECURSIVE SecondPass_KeepsUnresolved(_, _, _, _)
SecondPass_KeepsUnresolved(cards, props, order_to_id, n) ==
    IF n = 0 THEN cards
    ELSE LET before == SecondPass_KeepsUnresolved(cards, props, order_to_id, n - 1)
             dc == props[n]
             card_id == order_to_id[dc.order]
             resolved_deps == {IF d \in DOMAIN order_to_id THEN order_to_id[d] ELSE d :
                                 d \in dc.dependencies}
         IN  IF dc.dependencies # {} /\ resolved_deps # {}
             THEN UpdateDependencies(before, card_id, resolved_deps)
             ELSE before

RECURSIVE SecondPass(_, _, _, _)
SecondPass(cards, props, order_to_id, n) ==
    IF n = 0 THEN cards
    ELSE LET before == SecondPass(cards, props, order_to_id, n - 1)
             dc == props[n]
             card_id == order_to_id[dc.order]
             resolved_deps == {order_to_id[d] :
                                 d \in dc.dependencies \cap DOMAIN order_to_id}
         IN  IF dc.dependencies # {} /\ resolved_deps # {}
             THEN UpdateDependencies(before, card_id, resolved_deps)
             ELSE before

\* raised_after = -1: no exception; k >= 0: an exception after k cards exist
\* (the cards the Decomposer returned beyond those k play no part then).
ActDecompose(S, goal_id, decomposition_success, props, raised_after) ==
    LET cs == <<DecomposerCall(goal_id, props)>> IN
    IF ~decomposition_success
    THEN Outcome(S, ActResult(FALSE, FALSE, NoLearning, "decomposition_failed"), cs, FALSE)
    ELSE IF raised_after >= 0
    THEN Outcome(FirstPass(S, goal_id, raised_after),
                 ActResult(FALSE, FALSE, NoLearning, "exception"), cs, FALSE)
    ELSE LET T == FirstPass(S, goal_id, Len(props))
             order_to_id == OrderToId(props, Len(S.cards))
         IN  Outcome([T EXCEPT !.cards = SecondPass(T.cards, props, order_to_id, Len(props))],
                     ActResult(TRUE, FALSE, NoLearning, "none"), cs, FALSE)

PlanResults == {"ok_spec_path", "ok_no_spec_path", "failed", "raised"}
ImplementResults == {"ok", "failed", "raised"}

ActExecuteCard(S, card_id, plan, implement) ==
    IF ~CardExists(S.cards, card_id)
    THEN Outcome(S, ActResult(FALSE, FALSE, NoLearning, "card_not_found"), <<>>, FALSE)
    ELSE
    LET current_column == S.cards[card_id].column
        stage1 == current_column \in {"backlog", "plan"}
        stage2 == current_column \in {"backlog", "plan", "implement"}
        cards1 == IF stage1 THEN Move(S.cards, card_id, "plan").cards ELSE S.cards
        calls1 == IF stage1 THEN <<Call("execute_plan", card_id)>> ELSE <<>>
        cards2 == IF stage1 /\ plan = "ok_spec_path"
                  THEN UpdateSpecPath(cards1, card_id) ELSE cards1
        cards3 == IF stage2 THEN Move(cards2, card_id, "implement").cards ELSE cards2
        calls2 == IF stage2 THEN Append(calls1, Call("execute_implement", card_id))
                  ELSE calls1
        moved  == Move(cards3, card_id, "done")
        Fail(cards, error, cs) ==
            Outcome([S EXCEPT !.cards = cards],
                    ActResult(FALSE, FALSE, NoLearning, error), cs, FALSE)
    IN  IF current_column = "done"
        THEN Outcome(S, ActResult(TRUE, FALSE, NoLearning, "none"), <<>>, FALSE)
        ELSE IF stage1 /\ plan = "failed" THEN Fail(cards1, "plan_failed", calls1)
        ELSE IF stage1 /\ plan = "raised" THEN Fail(cards1, "exception", calls1)
        ELSE IF stage2 /\ ~cards2[card_id].spec_path
        THEN Fail(cards2, "no_spec_path", calls1)
        ELSE IF stage2 /\ implement = "failed"
        THEN Fail(cards3, "implement_failed", calls2)
        ELSE IF stage2 /\ implement = "raised" THEN Fail(cards3, "exception", calls2)
        ELSE IF moved.error # "none" THEN Fail(cards3, "move_to_done_failed", calls2)
        ELSE Outcome([S EXCEPT !.cards = moved.cards],
                     ActResult(TRUE, TRUE, [kind |-> "card", id |-> card_id, count |-> 0],
                               "none"),
                     calls2, TRUE)

\* COMPLETE_GOAL that forgets to ask for a learning.
ActCompleteGoal_NoLearning(S, goal_id) ==
    [store |-> [S EXCEPT !.goals = UpdateStatus(S.goals, goal_id, "completed")],
     act |-> ActResult(TRUE, FALSE, NoLearning, "none"),
     calls |-> <<>>, commit |-> FALSE]

\* COMPLETE_GOAL that reports success without marking the goal completed.
ActCompleteGoal_LeavesActive(S, goal_id) ==
    IF goal_id \notin 1..Len(S.goals)
    THEN Outcome(S, ActResult(FALSE, FALSE, NoLearning, "goal_not_found"), <<>>, FALSE)
    ELSE Outcome(S,
                 ActResult(TRUE, TRUE,
                           [kind |-> "goal", id |-> goal_id,
                            count |-> Len(S.goals[goal_id].cards)],
                           "none"),
                 <<>>, FALSE)

\* The broadcasts and the gallery and voting helpers called after
\* update_status catch their own exceptions, so the handler has no failing
\* path once the goal is found.
ActCompleteGoal(S, goal_id) ==
    IF goal_id \notin 1..Len(S.goals)
    THEN Outcome(S, ActResult(FALSE, FALSE, NoLearning, "goal_not_found"), <<>>, FALSE)
    ELSE Outcome([S EXCEPT !.goals = UpdateStatus(S.goals, goal_id, "completed")],
                 ActResult(TRUE, TRUE,
                           [kind |-> "goal", id |-> goal_id,
                            count |-> Len(S.goals[goal_id].cards)],
                           "none"),
                 <<>>, FALSE)

\* CREATE_FIX: the status entries carry no "error", so the context is None.
ActCreateFix(S, card_id) ==
    LET r == CreateFixCard(S.cards, card_id, "none") IN
    IF r.card # 0
    THEN Outcome([S EXCEPT !.cards = r.cards],
                 ActResult(TRUE, FALSE, NoLearning, "none"), <<>>, FALSE)
    ELSE Outcome(S, ActResult(FALSE, FALSE, NoLearning, "create_fix_failed"),
                 <<>>, FALSE)

\* Every outcome of the handler _step_act dispatches to for decision t.
StepAct(t, S) ==
    CASE t.decision = "decompose" ->
           {ActDecompose(S, t.goal_id, FALSE, <<>>, -1)}
           \cup {ActDecompose(S, t.goal_id, TRUE, p, -1) :
                   p \in Proposals(MaxCards - Len(S.cards))}
           \cup {ActDecompose(S, t.goal_id, TRUE, <<>>, k) :
                   k \in 0..(MaxCards - Len(S.cards))}
      [] t.decision = "execute_card" ->
           {ActExecuteCard(S, t.card_ids[1], p, i) :
              p \in PlanResults, i \in ImplementResults}
      [] t.decision = "create_fix" ->
           {ActCreateFix(S, t.card_ids[1])}
      [] t.decision = "complete_goal" -> {ActCompleteGoal(S, t.goal_id)}
      [] t.decision = "wait" ->
           {Outcome(S, ActResult(TRUE, FALSE, NoLearning, "none"), <<>>, FALSE)}
      [] OTHER -> {}

\* ------------------------------------------------------------------- state
\* lastOp: the latest card operation requested from outside the cycle (and,
\* for CardRepository.move, what it was asked and what it returned), while it
\* is the latest operation; during a cycle, the attempt under way.
Op(kind, card, from, to, error) ==
    [kind |-> kind, card |-> card, from |-> from, to |-> to, error |-> error]

NoOp == Op("none", 0, "none", "none", "none")

\* The log entry RECORD writes for the ACT step, and whether an action row
\* goes with it.
\* The row action_repo.create is asked to write: the call hands over the
\* goal, the action type and the card; success and error are nullable
\* columns the call gives no value for.
OrchestratorAction(goal_id, action_type, card_ids) ==
    [goal_id |-> goal_id, action_type |-> action_type, card_ids |-> card_ids,
     success |-> "null", error |-> "null"]

NoAction == OrchestratorAction(0, "none", <<>>)

RecordStep(t, a) ==
    [goal_id |-> t.goal_id, decision |-> t.decision,
     success |-> a.success, error |-> a.error,
     action |-> IF t.goal_id # 0
                THEN OrchestratorAction(t.goal_id, t.decision, t.card_ids)
                ELSE NoAction,
     learning_id |-> "none"]

NoRecord == RecordStep(NoThink, NoAct)

\* runner: the Cycle Runner (self._running, self._task, the loop tasks that
\* were created and the stop() calls awaiting one of them); it plays no part
\* in a single cycle. recorded: what RECORD wrote in the running cycle, and
\* what the Learning Store answered in LEARN.
NoRunner == [running |-> FALSE, task |-> 0, tasks |-> <<>>, stops |-> {}]

Idle == pc = "idle"

Init ==
    /\ committed = EmptyStore
    /\ store = EmptyStore
    /\ pc = "idle"
    /\ usage = NoUsage
    /\ think = NoThink
    /\ act = NoAct
    /\ calls = <<>>
    /\ lastOp = NoOp
    /\ apiOps = 0
    /\ runner = NoRunner
    /\ recorded = NoRecord

CycleLocalsReset ==
    /\ usage' = NoUsage
    /\ think' = NoThink
    /\ act' = NoAct
    /\ calls' = <<>>
    /\ recorded' = NoRecord

\* ------------------------------------------------- operations from outside
SubmitGoal ==
    /\ Idle
    /\ Len(committed.goals) < MaxGoals
    /\ committed' = [committed EXCEPT !.goals = Append(@, NewGoal)]
    /\ store' = committed'
    /\ lastOp' = NoOp
    /\ UNCHANGED <<pc, usage, think, act, calls, apiOps>>
    /\ UNCHANGED <<runner, recorded>>

CardRepositoryMove ==
    /\ Idle
    /\ apiOps < MaxApiOps
    /\ \E c \in 1..Len(committed.cards), to \in AllColumns :
         LET r == Move(committed.cards, c, to) IN
         /\ committed' = [committed EXCEPT !.cards = r.cards]
         /\ lastOp' = Op("move", c, committed.cards[c].column, to, r.error)
    /\ store' = committed'
    /\ apiOps' = apiOps + 1
    /\ UNCHANGED <<pc, usage, think, act, calls>>
    /\ UNCHANGED <<runner, recorded>>

CardRepositoryUpdate ==
    /\ Idle
    /\ apiOps < MaxApiOps
    /\ \E c \in 1..Len(committed.cards), col \in ColumnId \cup {"unset"},
          sp \in BOOLEAN :
         /\ col # "unset" \/ sp
         /\ committed' = [committed EXCEPT !.cards = Update(@, c, col, sp)]
         /\ lastOp' = Op("update", c, "none", "none", "none")
    /\ store' = committed'
    /\ apiOps' = apiOps + 1
    /\ UNCHANGED <<pc, usage, think, act, calls>>
    /\ UNCHANGED <<runner, recorded>>

CardRepositoryDelete ==
    /\ Idle
    /\ apiOps < MaxApiOps
    /\ \E c \in 1..Len(committed.cards) :
         /\ committed' = [committed EXCEPT !.cards = Delete(@, c)]
         /\ lastOp' = Op("delete", c, "none", "none", "none")
    /\ store' = committed'
    /\ apiOps' = apiOps + 1
    /\ UNCHANGED <<pc, usage, think, act, calls>>
    /\ UNCHANGED <<runner, recorded>>

ProcessingColumns == {"plan", "implement", "test", "review"}

StopLiveModeCards(cards) ==
    [c \in 1..Len(cards) |->
        IF ~cards[c].deleted /\ cards[c].column \in ProcessingColumns
        THEN [cards[c] EXCEPT !.column = "backlog"] ELSE cards[c]]

StopLiveMode ==
    /\ Idle
    /\ apiOps < MaxApiOps
    /\ committed' = [committed EXCEPT !.cards = StopLiveModeCards(@)]
    /\ lastOp' = Op("stop_live_mode", 0, "none", "none", "none")
    /\ store' = committed'
    /\ apiOps' = apiOps + 1
    /\ UNCHANGED <<pc, usage, think, act, calls>>
    /\ UNCHANGED <<runner, recorded>>

\* ---------------------------------------------------------------- the cycle
\* A cycle attempt under way, with the store its session started from.
CycleOp(S) == [kind |-> "cycle", before |-> S]

ExecuteCycle ==
    /\ Idle
    /\ pc' = "read"
    /\ lastOp' = CycleOp(committed)
    /\ UNCHANGED <<committed, store, usage, think, act, calls, apiOps>>
    /\ UNCHANGED <<runner, recorded>>

Rollback ==
    /\ store' = committed
    /\ pc' = "idle"
    /\ CycleLocalsReset
    /\ lastOp' = NoOp
    /\ UNCHANGED <<committed, apiOps>>

\* READ: the recent context is read and a log entry written.
Read ==
    /\ pc = "read"
    /\ pc' = "query"
    /\ UNCHANGED <<committed, store, usage, think, act, calls, lastOp, apiOps>>
    /\ UNCHANGED <<runner, recorded>>

\* QUERY: the learnings relevant to the active goal, if there is one.
Query ==
    /\ pc = "query"
    /\ pc' = "think"
    /\ UNCHANGED <<committed, store, usage, think, act, calls, lastOp, apiOps>>
    /\ UNCHANGED <<runner, recorded>>

Think ==
    /\ pc = "think"
    /\ \E u \in CheckUsageOutcomes :
         LET r == StepThink(u, store) IN
         IF r.think.decision = "raise"
         THEN Rollback
         ELSE /\ usage' = u
              /\ think' = r.think
              /\ store' = [store EXCEPT !.goals = r.goals]
              /\ pc' = "act"
              /\ UNCHANGED <<committed, act, calls, lastOp, apiOps, recorded>>
    /\ UNCHANGED runner

Act ==
    /\ pc = "act"
    /\ \E o \in StepAct(think, store) :
         /\ store' = o.store
         /\ act' = o.act
         /\ calls' = o.calls
         /\ committed' = IF o.commit THEN o.store ELSE committed
    /\ pc' = "record"
    /\ UNCHANGED <<usage, think, lastOp, apiOps>>
    /\ UNCHANGED <<runner, recorded>>

Record_SkipsFailure ==
    /\ pc = "record"
    /\ recorded' = IF act.success THEN RecordStep(think, act) ELSE recorded
    /\ pc' = IF act.should_learn /\ act.learning # NoLearning THEN "learn" ELSE "commit"
    /\ UNCHANGED <<committed, store, usage, think, act, calls, lastOp, apiOps>>
    /\ UNCHANGED runner

Record ==
    /\ pc = "record"
    /\ recorded' = RecordStep(think, act)
    /\ pc' = IF act.should_learn /\ act.learning # NoLearning THEN "learn" ELSE "commit"
    /\ UNCHANGED <<committed, store, usage, think, act, calls, lastOp, apiOps>>
    /\ UNCHANGED runner

StepLearn_AlwaysAttaches(t, S, stored) ==
    IF t.goal_id \notin 1..Len(S.goals) THEN Outcome(S, act, <<>>, FALSE)
    ELSE Outcome([S EXCEPT !.goals = SetLearning(S.goals, t.goal_id)],
                 act, <<Call("learning_store", t.goal_id)>>, FALSE)

StepLearn(t, S, stored) ==
    IF t.goal_id \notin 1..Len(S.goals) THEN Outcome(S, act, <<>>, FALSE)
    ELSE Outcome(IF stored THEN [S EXCEPT !.goals = SetLearning(S.goals, t.goal_id)]
                 ELSE S,
                 act, <<Call("learning_store", t.goal_id)>>, FALSE)

Learn ==
    /\ pc = "learn"
    /\ \E stored \in BOOLEAN :
         LET o == StepLearn(think, store, stored) IN
         /\ store' = o.store
         /\ calls' = calls \o o.calls
         /\ recorded' = [recorded EXCEPT !.learning_id =
                           IF o.calls = <<>> THEN "none"
                           ELSE IF stored THEN "id" ELSE "null"]
    /\ pc' = "commit"
    /\ UNCHANGED <<committed, usage, think, act, lastOp, apiOps>>
    /\ UNCHANGED runner

Commit ==
    /\ pc = "commit"
    /\ committed' = store
    /\ pc' = "idle"
    /\ CycleLocalsReset
    /\ lastOp' = NoOp
    /\ UNCHANGED <<store, apiOps>>
    /\ UNCHANGED runner

\* An exception no step handles (a storage error): rollback, the cycle ends.
CycleRaises ==
    /\ pc \in {"read", "query", "think", "record", "learn", "commit"}
    /\ Rollback
    /\ UNCHANGED runner

Next ==
    \/ SubmitGoal
    \/ CardRepositoryMove
    \/ CardRepositoryUpdate
    \/ CardRepositoryDelete
    \/ StopLiveMode
    \/ ExecuteCycle
    \/ Read
    \/ Query
    \/ Think
    \/ Act
    \/ Record
    \/ Learn
    \/ Commit
    \/ CycleRaises

Spec == Init /\ [][Next]_vars

\* ------------------------------------------------ the card repository alone
\* The repository driven call by call, the way tests/test_card_repository.py
\* drives it: every call is committed before the next one.
MaxRepoCards == 3

ErrorContexts == {"first", "second"}

\* Model settings of the parent row: the defaults, and the settings
\* test_create_fix_card_copies_parent_config gives its parent.
ParentModels ==
    {DefaultModels,
     [plan |-> "sonnet-4.5", implement |-> "haiku-4.5", test |-> "opus-4.5",
      review |-> "sonnet-4.5"]}

FixOp(parent_card_id, error_info, card, created) ==
    [kind |-> "create_fix_card", parent_card_id |-> parent_card_id,
     error_info |-> error_info, card |-> card, created |-> created]

RepoOp(kind) == Op(kind, 0, "none", "none", "none")

\* Targets asked of move and of update: a workable and a terminal column
\* each.
RepoMoveTargets == {"plan", "cancelado"}
RepoUpdateTargets == {"backlog", "done"}

RepoInit ==
    /\ \E m \in ParentModels :
         committed = [goals |-> <<>>, cards |-> <<[NewCard EXCEPT !.models = m]>>]
    /\ store = committed
    /\ pc = "idle"
    /\ usage = NoUsage
    /\ think = NoThink
    /\ act = NoAct
    /\ calls = <<>>
    /\ lastOp = NoOp
    /\ apiOps = 0
    /\ runner = NoRunner
    /\ recorded = NoRecord

RepoCommit(cards, op) ==
    /\ committed' = [committed EXCEPT !.cards = cards]
    /\ store' = committed'
    /\ lastOp' = op
    /\ UNCHANGED <<pc, usage, think, act, calls, apiOps>>
    /\ UNCHANGED <<runner, recorded>>

RepoCreate ==
    /\ Len(committed.cards) < MaxRepoCards
    /\ RepoCommit(Append(committed.cards, NewCard),
                  RepoOp("create"))

RepoCreateFixCard ==
    \E parent_card_id \in 1..(Len(committed.cards) + 1),
       error_info \in ErrorContexts :
        LET r == CreateFixCard(committed.cards, parent_card_id, error_info) IN
        /\ parent_card_id \in 1..Len(committed.cards) =>
             ~committed.cards[parent_card_id].is_fix_card
        /\ Len(r.cards) <= MaxRepoCards
        /\ RepoCommit(r.cards,
                      FixOp(parent_card_id, error_info, r.card,
                            Len(r.cards) > Len(committed.cards)))

RepoMove ==
    \E c \in 1..Len(committed.cards), to \in RepoMoveTargets :
        LET r == Move(committed.cards, c, to) IN
        /\ r.error = "none"
        /\ RepoCommit(r.cards, RepoOp("move"))

RepoUpdate ==
    \E c \in 1..Len(committed.cards), col \in RepoUpdateTargets :
        /\ CardExists(committed.cards, c)
        /\ RepoCommit(Update(committed.cards, c, col, FALSE), RepoOp("update"))

RepoDelete ==
    \E c \in 1..Len(committed.cards) :
        /\ CardExists(committed.cards, c)
        /\ RepoCommit(Delete(committed.cards, c), RepoOp("delete"))

RepoNext ==
    \/ RepoCreate
    \/ RepoCreateFixCard
    \/ RepoMove
    \/ RepoUpdate
    \/ RepoDelete

RepoSpec == RepoInit /\ [][RepoNext]_vars

\* --------------------------------------------- THINK on flagged test failures
\* _get_cards_status leaves needs_fix to a test-failure detection that is not
\* written yet.  Here the branch of THINK that reads the flag is applied to
\* status lists in which the detection has flagged cards: the goal is active,
\* usage is safe, and the flags are an input of the step.
FlagColumns == {"backlog", "test", "review", "done"}

StatusOp(cards_status) == [kind |-> "cards_status", cards_status |-> cards_status]

FlaggedStatus(cards_status, flags) ==
    [i \in 1..Len(cards_status) |->
        [cards_status[i] EXCEPT !.needs_fix = flags[i]]]

FlagInit ==
    /\ \E n \in 1..MaxCards : \E cols \in [1..n -> FlagColumns] :
         committed =
            [goals |-> <<[NewGoal EXCEPT !.status = "active",
                                         !.cards = [i \in 1..n |-> i]]>>,
             cards |-> [i \in 1..n |-> [NewCard EXCEPT !.column = cols[i]]]]
    /\ store = committed
    /\ pc = "think"
    /\ usage = NoUsage
    /\ think = NoThink
    /\ act = NoAct
    /\ calls = <<>>
    /\ lastOp = NoOp
    /\ apiOps = 0
    /\ runner = NoRunner
    /\ recorded = NoRecord

FlagThink ==
    /\ pc = "think"
    /\ GetActiveGoal(store.goals) # 0
    /\ LET g  == GetActiveGoal(store.goals)
           st == GetCardsStatus(store.goals[g].cards, store.cards)
       IN  \E flags \in [1..Len(st) -> BOOLEAN] :
             LET r == ThinkCards(g, FlaggedStatus(st, flags), store.goals) IN
             /\ st # <<>>
             /\ lastOp' = StatusOp(FlaggedStatus(st, flags))
             /\ IF r.think.decision = "raise"
                THEN /\ store' = committed
                     /\ pc' = "idle"
                     /\ CycleLocalsReset
                     /\ UNCHANGED <<committed, apiOps>>
                ELSE /\ usage' = ParseUsageOutput(0, 0)
                     /\ think' = r.think
                     /\ pc' = "act"
                     /\ UNCHANGED <<committed, store, act, calls, apiOps, recorded>>
    /\ UNCHANGED runner

FlagNext ==
    \/ FlagThink
    \/ Act
    \/ Record
    \/ Learn
    \/ Commit
    \/ ExecuteCycle
    \/ Read
    \/ Query

FlagSpec == FlagInit /\ [][FlagNext]_vars

\* --------------------------------------------------------- the Cycle Runner
\* start(), stop() and the loop tasks, with a cycle seen from outside: it
\* ends well, with a 'database is locked' error or with another error.
MaxTasks == 2

max_retries == 3

CycleOutcomes == {"ok", "locked", "error"}

\* A loop task: where it is suspended, the index of the running attempt,
\* and what happened since the interval began (how each attempt ended, how
\* long each backoff sleep was).
NewTask == [pc |-> "ready", attempt |-> 0, errors |-> <<>>, waits |-> <<>>]

wait_time(attempt) == (attempt + 1) * 3

AfterCycle_ErrorEndsLoop(t, outcome) ==
    IF outcome = "ok"
    THEN [t EXCEPT !.pc = "interval", !.errors = Append(@, "ok")]
    ELSE IF outcome = "locked" /\ t.attempt < max_retries - 1
    THEN [t EXCEPT !.pc = "backoff", !.errors = Append(@, outcome),
                   !.waits = Append(@, wait_time(t.attempt))]
    ELSE [t EXCEPT !.pc = "finished", !.errors = Append(@, outcome)]

AfterCycle_RetriesAnyError(t, outcome) ==
    IF outcome = "ok"
    THEN [t EXCEPT !.pc = "interval", !.errors = Append(@, "ok")]
    ELSE IF t.attempt < max_retries - 1
    THEN [t EXCEPT !.pc = "backoff", !.errors = Append(@, outcome),
                   !.waits = Append(@, wait_time(t.attempt))]
    ELSE [t EXCEPT !.pc = "interval", !.errors = Append(@, outcome)]

\* The retry loop once _execute_cycle has returned or raised.
AfterCycle(t, outcome) ==
    IF outcome = "ok"
    THEN [t EXCEPT !.pc = "interval", !.errors = Append(@, "ok")]
    ELSE IF outcome = "locked" /\ t.attempt < max_retries - 1
    THEN [t EXCEPT !.pc = "backoff", !.errors = Append(@, outcome),
                   !.waits = Append(@, wait_time(t.attempt))]
    ELSE [t EXCEPT !.pc = "interval", !.errors = Append(@, outcome)]

\* task.cancel(): CancelledError is thrown into the task where it is
\* suspended. No except clause of the loop or of the cycle catches it; inside
\* a cycle it leaves through the exit of 'async with session', which awaits
\* the closing of the session.
Cancelled(t) ==
    IF t.pc \in {"cycle", "closing"} THEN [t EXCEPT !.pc = "closing"]
    ELSE [t EXCEPT !.pc = "finished"]

cycleVars ==
    <<committed, store, pc, usage, think, act, calls, lastOp, apiOps, recorded>>

Start ==
    /\ ~runner.running
    /\ Len(runner.tasks) < MaxTasks
    /\ runner' = [runner EXCEPT !.running = TRUE,
                                !.task = Len(runner.tasks) + 1,
                                !.tasks = Append(@, NewTask)]
    /\ UNCHANGED cycleVars

\* start() while running: a warning, nothing else.
StartWhileRunning ==
    /\ runner.running
    /\ UNCHANGED vars

\* stop() up to the point where it awaits the task.
Stop ==
    /\ runner' =
         IF runner.task = 0 THEN [runner EXCEPT !.running = FALSE]
         ELSE [runner EXCEPT !.running = FALSE,
                             !.tasks[runner.task] = Cancelled(@),
                             !.stops = @ \cup {runner.task}]
    /\ UNCHANGED cycleVars

\* The awaited task is over: stop() logs and returns.
StopReturns ==
    /\ \E k \in runner.stops :
         /\ runner.tasks[k].pc = "finished"
         /\ runner' = [runner EXCEPT !.stops = @ \ {k}]
    /\ UNCHANGED cycleVars

\* 'while self._running': a new interval begins with the first attempt, or
\* the loop ends.
RunLoopOf(k) ==
    /\ k \in 1..Len(runner.tasks)
    /\ runner.tasks[k].pc \in {"ready", "interval"}
    /\ runner' = [runner EXCEPT !.tasks[k] =
                    IF runner.running
                    THEN [NewTask EXCEPT !.pc = "cycle"]
                    ELSE [@ EXCEPT !.pc = "finished"]]
    /\ UNCHANGED cycleVars

RunLoop == \E k \in 1..MaxTasks : RunLoopOf(k)

ExecuteCycleEnds ==
    /\ \E k \in 1..Len(runner.tasks), outcome \in CycleOutcomes :
         /\ runner.tasks[k].pc = "cycle"
         /\ runner' = [runner EXCEPT !.tasks[k] = AfterCycle(@, outcome)]
    /\ UNCHANGED cycleVars

\* The backoff sleep is over: the next attempt of the same interval.
RetryOf(k) ==
    /\ k \in 1..Len(runner.tasks)
    /\ runner.tasks[k].pc = "backoff"
    /\ runner' = [runner EXCEPT !.tasks[k].pc = "cycle",
                                !.tasks[k].attempt = @ + 1]
    /\ UNCHANGED cycleVars

Retry == \E k \in 1..MaxTasks : RetryOf(k)

\* The session of a cancelled cycle is closed: the task is over.
SessionClosed ==
    /\ \E k \in 1..Len(runner.tasks) :
         /\ runner.tasks[k].pc = "closing"
         /\ runner' = [runner EXCEPT !.tasks[k].pc = "finished"]
    /\ UNCHANGED cycleVars

LoopNext ==
    \/ Start
    \/ StartWhileRunning
    \/ Stop
    \/ StopReturns
    \/ RunLoop
    \/ ExecuteCycleEnds
    \/ Retry
    \/ SessionClosed

LoopSpec == Init /\ [][LoopNext]_vars

\* asyncio.sleep returns: a sleeping loop task is resumed in the end.
LoopFairness ==
    \A k \in 1..MaxTasks : WF_vars(RunLoopOf(k)) /\ WF_vars(RetryOf(k))

LoopFairSpec == LoopSpec /\ LoopFairness

\* ------------------------------------------- the card move and its broadcasts
\* _move_card_with_broadcast alone: the move of the repository, then the
\* admin WebSocket broadcast and the broadcast to the live spectators, each in
\* a try block of its own.
BroadcastOutcomes == {"sent", "raised"}

\* The warnings the two except blocks log.
BroadcastWarnings(admin, live) ==
    (IF admin = "raised" THEN <<"broadcast">> ELSE <<>>)
        \o (IF live = "raised" THEN <<"live">> ELSE <<>>)

\* a raised broadcast is not caught and ends the move with an error.
MoveCardWithBroadcast_Propagates(cards, card_id, to_column, admin, live) ==
    IF ~CardExists(cards, card_id)
    THEN [cards |-> cards, card |-> 0, error |-> "not_found", warnings |-> <<>>]
    ELSE LET r == Move(cards, card_id, to_column) IN
         IF r.error # "none"
         THEN [cards |-> cards, card |-> 0, error |-> r.error, warnings |-> <<>>]
         ELSE IF admin = "raised" \/ live = "raised"
         THEN [cards |-> r.cards, card |-> 0, error |-> "exception",
               warnings |-> <<>>]
         ELSE [cards |-> r.cards, card |-> r.card, error |-> "none",
               warnings |-> <<>>]

MoveCardWithBroadcast(cards, card_id, to_column, admin, live) ==
    IF ~CardExists(cards, card_id)
    THEN [cards |-> cards, card |-> 0, error |-> "not_found", warnings |-> <<>>]
    ELSE LET r == Move(cards, card_id, to_column) IN
         IF r.error # "none"
         THEN [cards |-> cards, card |-> 0, error |-> r.error, warnings |-> <<>>]
         ELSE [cards |-> r.cards, card |-> r.card, error |-> "none",
               warnings |-> BroadcastWarnings(admin, live)]

\* The columns ACT asks a card to be moved to, and the columns it finds the
\* card in when the moves are accepted or refused.
BroadcastTargets == {"plan", "implement", "done"}
BroadcastColumns == {"backlog", "plan", "review", "done"}

BroadcastOp(card_id, from, to_column, r, admin, live) ==
    [kind |-> "move_card_with_broadcast", card_id |-> card_id, from |-> from,
     to |-> to_column, card |-> r.card, error |-> r.error,
     warnings |-> r.warnings, admin |-> admin, live |-> live]

BroadcastInit ==
    /\ \E n \in 1..MaxCards : \E cols \in [1..n -> BroadcastColumns] :
         committed =
            [goals |-> <<>>,
             cards |-> [i \in 1..n |-> [NewCard EXCEPT !.column = cols[i]]]]
    /\ store = committed
    /\ pc = "idle"
    /\ usage = NoUsage
    /\ think = NoThink
    /\ act = NoAct
    /\ calls = <<>>
    /\ lastOp = NoOp
    /\ apiOps = 0
    /\ runner = NoRunner
    /\ recorded = NoRecord

MoveCardWithBroadcastCall ==
    \E card_id \in 1..(Len(committed.cards) + 1), to_column \in BroadcastTargets,
       admin \in BroadcastOutcomes, live \in BroadcastOutcomes :
        LET r == MoveCardWithBroadcast(committed.cards, card_id, to_column,
                                       admin, live)
            from == IF card_id \in 1..Len(committed.cards)
                    THEN committed.cards[card_id].column ELSE "none"
        IN  /\ committed' = [committed EXCEPT !.cards = r.cards]
            /\ store' = committed'
            /\ lastOp' = BroadcastOp(card_id, from, to_column, r, admin, live)
            /\ UNCHANGED <<pc, usage, think, act, calls, apiOps>>
            /\ UNCHANGED <<runner, recorded>>

BroadcastNext == MoveCardWithBroadcastCall

BroadcastSpec == BroadcastInit /\ [][BroadcastNext]_vars

\* ----------------------------------------------- the engine when nothing fails
\* Cycles in which the usage check reports safe, the Decomposer reports
\* success, both stages of the Stage Executor succeed, the Learning Store
\* answers and no storage error is raised; goals are submitted from outside,
\* and the loop keeps running.
SafeUsageOutcomes == {u \in CheckUsageOutcomes : u.is_safe_to_execute}

SucceedingStepAct(t, S) ==
    CASE t.decision = "decompose" ->
           {ActDecompose(S, t.goal_id, TRUE, p, -1) :
              p \in Proposals(MaxCards - Len(S.cards))}
      [] t.decision = "execute_card" ->
           {ActExecuteCard(S, t.card_ids[1], "ok_spec_path", "ok")}
      [] OTHER -> StepAct(t, S)

\* The store the runs start from: empty, or one active goal whose cards wait
\* in backlog or were brought to review through the card API.
GoodRunColumns == {"backlog", "review"}

GoodRunInit ==
    /\ \E n \in 0..MaxCards : \E cols \in [1..n -> GoodRunColumns] :
         committed =
            IF n = 0 THEN EmptyStore
            ELSE [goals |-> <<[NewGoal EXCEPT !.status = "active",
                                              !.cards = [i \in 1..n |-> i]]>>,
                  cards |-> [i \in 1..n |-> [NewCard EXCEPT !.column = cols[i]]]]
    /\ store = committed
    /\ pc = "idle"
    /\ usage = NoUsage
    /\ think = NoThink
    /\ act = NoAct
    /\ calls = <<>>
    /\ lastOp = NoOp
    /\ apiOps = 0
    /\ runner = NoRunner
    /\ recorded = NoRecord

SafeThink ==
    /\ pc = "think"
    /\ \E u \in SafeUsageOutcomes :
         LET r == StepThink(u, store) IN
         /\ r.think.decision # "raise"
         /\ usage' = u
         /\ think' = r.think
         /\ store' = [store EXCEPT !.goals = r.goals]
         /\ pc' = "act"
         /\ UNCHANGED <<committed, act, calls, lastOp, apiOps, recorded>>
    /\ UNCHANGED runner

SucceedingAct ==
    /\ pc = "act"
    /\ \E o \in SucceedingStepAct(think, store) :
         /\ store' = o.store
         /\ act' = o.act
         /\ calls' = o.calls
         /\ committed' = IF o.commit THEN o.store ELSE committed
    /\ pc' = "record"
    /\ UNCHANGED <<usage, think, lastOp, apiOps>>
    /\ UNCHANGED <<runner, recorded>>

StoredLearn ==
    /\ pc = "learn"
    /\ LET o == StepLearn(think, store, TRUE) IN
         /\ store' = o.store
         /\ calls' = calls \o o.calls
         /\ recorded' = [recorded EXCEPT !.learning_id =
                           IF o.calls = <<>> THEN "none" ELSE "id"]
    /\ pc' = "commit"
    /\ UNCHANGED <<committed, usage, think, act, lastOp, apiOps>>
    /\ UNCHANGED runner

GoodRunNext ==
    \/ SubmitGoal
    \/ ExecuteCycle
    \/ Read
    \/ Query
    \/ SafeThink
    \/ SucceedingAct
    \/ Record
    \/ StoredLearn
    \/ Commit

GoodRunSpec == GoodRunInit /\ [][GoodRunNext]_vars

\* The loop keeps running: a cycle is started again and again, and every step
\* of a started cycle is taken.
GoodRunFairness ==
    /\ WF_vars(ExecuteCycle)
    /\ WF_vars(Read)
    /\ WF_vars(Query)
    /\ WF_vars(SafeThink)
    /\ WF_vars(SucceedingAct)
    /\ WF_vars(Record)
    /\ WF_vars(StoredLearn)
    /\ WF_vars(Commit)

GoodRunFairSpec == GoodRunSpec /\ GoodRunFairness

TypeOK ==
    /\ pc \in {"idle", "read", "query", "think", "act", "record", "learn", "commit"}
    /\ Len(committed.cards) <= MaxCards
    /\ Len(store.cards) <= MaxCards
    /\ Idle => store = committed

\* ================================================================== claims
InCycleAfterThink == pc \in {"act", "record", "learn", "commit"}

ActiveGoals(goals) == {g \in 1..Len(goals) : goals[g].status = "active"}

PendingGoals(goals) == {g \in 1..Len(goals) : goals[g].status = "pending"}

BecomesActive(old, new, g) ==
    /\ g \in 1..Len(old) /\ g \in 1..Len(new)
    /\ old[g].status = "pending"
    /\ new[g].status = "active"

\* C1: in every committed state at most one Goal is active; a pending Goal
\* becomes active only in the THINK step of a cycle that saw no active Goal,
\* it is the oldest pending Goal, and the commit that publishes the
\* activation is the commit of that cycle.
C1_AtMostOneActiveGoal ==
    [][ /\ Cardinality(ActiveGoals(committed'.goals)) <= 1
        /\ \A g \in 1..MaxGoals :
             /\ BecomesActive(store.goals, store'.goals, g) =>
                  /\ pc = "think"
                  /\ store = committed
                  /\ ActiveGoals(committed.goals) = {}
                  /\ \A h \in PendingGoals(committed.goals) : g <= h
             /\ BecomesActive(committed.goals, committed'.goals, g) =>
                  /\ pc = "commit"
                  /\ think.decision = "decompose" /\ think.goal_id = g
                  /\ ActiveGoals(committed.goals) = {}
                  /\ \A h \in PendingGoals(committed.goals) : g <= h
      ]_vars

\* The second goal was activated after the first one completed.
C1_Witness ==
    /\ pc = "idle"
    /\ Len(committed.goals) = 2
    /\ committed.goals[1].status = "completed"
    /\ committed.goals[2].status = "active"

\* The decision the seven rules give, on the usage snapshot and the card
\* statuses THINK reads.
RuleDecision(u, S) ==
    LET active  == GetActiveGoal(S.goals)
        pending == GetPendingGoals(S.goals)
        ids     == IF active = 0 THEN <<>> ELSE S.goals[active].cards
        st      == GetCardsStatus(ids, S.cards)
        fix     == SelectSeq(st, LAMBDA c : c.needs_fix)
        ready   == SelectSeq(st, LAMBDA c : c.ready_to_execute)
    IN  IF Max2(u.session_used_percent, u.daily_used_percent) > LimitThreshold
        THEN [decision |-> "wait", goal_id |-> 0, card_ids |-> <<>>]
        ELSE IF active = 0 /\ pending # <<>>
        THEN [decision |-> "decompose", goal_id |-> pending[1], card_ids |-> <<>>]
        ELSE IF active = 0
        THEN [decision |-> "wait", goal_id |-> 0, card_ids |-> <<>>]
        ELSE IF ids = <<>>
        THEN [decision |-> "decompose", goal_id |-> active, card_ids |-> <<>>]
        ELSE IF fix # <<>>
        THEN [decision |-> "create_fix", goal_id |-> active, card_ids |-> <<fix[1].id>>]
        ELSE IF ready # <<>>
        THEN [decision |-> "execute_card", goal_id |-> active,
              card_ids |-> <<ready[1].id>>]
        ELSE IF \A i \in 1..Len(st) : st[i].column = "done"
        THEN [decision |-> "complete_goal", goal_id |-> active, card_ids |-> <<>>]
        ELSE [decision |-> "wait", goal_id |-> active, card_ids |-> <<>>]

\* C2: for every usage snapshot the usage command reported and every state of
\* goals and cards, THINK returns the decision of the first matching rule of
\* the seven, rule 1 being "usage over the threshold".
C2_ThinkFollowsRuleOrder ==
    (pc = "act" /\ usage.error = "none") =>
        LET d == RuleDecision(usage, committed) IN
        /\ think.decision = d.decision
        /\ think.goal_id = d.goal_id
        /\ think.card_ids = d.card_ids

UsageOver(u) ==
    Max2(u.session_used_percent, u.daily_used_percent) > LimitThreshold

GoalStatuses(S) == [g \in 1..Len(S.goals) |-> S.goals[g].status]

CardColumns(S) ==
    [c \in 1..Len(S.cards) |-> IF S.cards[c].deleted THEN "deleted" ELSE S.cards[c].column]

HasReadyCard(S) ==
    LET g == GetActiveGoal(S.goals) IN
    /\ g # 0
    /\ \E c \in Range(S.goals[g].cards) :
         /\ CardExists(S.cards, c)
         /\ S.cards[c].column = "backlog"
         /\ S.cards[c].dependencies = {}

\* C3: in a cycle whose usage snapshot is over the threshold THINK answers
\* WAIT, neither the Decomposer nor the Stage Executor (nor any other
\* collaborator) is called, and no Goal status and no Card column changes.
C3_OverLimitCycleOnlyWaits ==
    (InCycleAfterThink /\ UsageOver(usage)) =>
        /\ think.decision = "wait"
        /\ calls = <<>>
        /\ GoalStatuses(store) = GoalStatuses(committed)
        /\ CardColumns(store) = CardColumns(committed)

\* An over-limit cycle about to commit although a card was ready and a goal
\* was pending.
C3_Witness ==
    /\ pc = "commit"
    /\ UsageOver(usage)
    /\ HasReadyCard(committed)
    /\ PendingGoals(committed.goals) # {}

\* The column sequence the documentation gives; its third column is called
\* in-progress by the repository, both names are accepted here.
ClaimNext(col) ==
    CASE col = "backlog"     -> {"plan"}
      [] col = "plan"        -> {"implement", "in-progress"}
      [] col = "implement"   -> {"test"}
      [] col = "in-progress" -> {"test"}
      [] col = "test"        -> {"review"}
      [] col = "review"      -> {"done"}
      [] OTHER               -> {}

\* The moves the repository accepts, written out as pairs.
AcceptedMoves ==
    {<<"backlog", "plan">>, <<"plan", "in-progress">>, <<"in-progress", "test">>,
     <<"test", "review">>, <<"review", "done">>, <<"done", "archived">>,
     <<"archived", "done">>}
    \cup {<<col, "cancelado">> :
            col \in {"backlog", "plan", "in-progress", "test", "review", "done"}}

MoveRequested == lastOp.kind = "move" /\ lastOp.error # "not_found"

\* C4 as stated: a move succeeds only to the immediate next column of
\* backlog -> plan -> implement -> test -> review -> done; any other request
\* returns an error value and leaves the column unchanged.
C4_MoveOnlyToNextColumn ==
    MoveRequested =>
        /\ lastOp.error = "none" => lastOp.to \in ClaimNext(lastOp.from)
        /\ lastOp.to \notin ClaimNext(lastOp.from) =>
             /\ lastOp.error = "invalid_transition"
             /\ committed.cards[lastOp.card].column = lastOp.from

\* C4 amended: a move succeeds exactly when the target is in
\* ALLOWED_TRANSITIONS of the current column (the next column of
\* backlog -> plan -> in-progress -> test -> review -> done -> archived,
\* cancelado from any of the first six columns, done from archived); any
\* other request (backlog -> test, plan -> implement) returns an error value
\* and leaves the card's column unchanged.
C4_MoveFollowsAllowedTransitions ==
    MoveRequested =>
        /\ lastOp.error = "none" <=> <<lastOp.from, lastOp.to>> \in AcceptedMoves
        /\ lastOp.error = "none" =>
             committed.cards[lastOp.card].column = lastOp.to
        /\ lastOp.error # "none" =>
             /\ lastOp.error = "invalid_transition"
             /\ committed.cards[lastOp.card].column = lastOp.from

\* backlog -> test was requested and refused.
C4_Witness ==
    /\ lastOp.kind = "move"
    /\ lastOp.from = "backlog" /\ lastOp.to = "test"
    /\ lastOp.error = "invalid_transition"
    /\ committed.cards[lastOp.card].column = "backlog"

ColumnChanged(old, new, c) ==
    /\ c \in 1..Len(old) /\ c \in 1..Len(new)
    /\ ~old[c].deleted /\ ~new[c].deleted
    /\ old[c].column # new[c].column

ExecutesCard(c) ==
    /\ pc # "idle"
    /\ think.decision = "execute_card"
    /\ think.card_ids = <<c>>

\* C5 as stated: over cycles, move, update and the stop route a card's
\* column only changes to the next column of the sequence (or to cancelled),
\* and every change to the next column is made by EXECUTE_CARD.
C5_ColumnsOnlyAdvanceByExecuteCard ==
    [][ \A c \in 1..MaxCards :
          ColumnChanged(committed.cards, committed'.cards, c) =>
            \/ /\ committed'.cards[c].column \in ClaimNext(committed.cards[c].column)
               /\ ExecutesCard(c)
            \/ committed'.cards[c].column = "cancelado"
      ]_vars

\* C5 amended: inside a cycle a column changes only for the card named by
\* the EXECUTE_CARD decision and only along one accepted move; outside the
\* cycle CardRepository.move changes a column only along one accepted move,
\* CardRepository.update may set any column of the board, and the stop route
\* returns cards in plan, implement, test or review to backlog.
C5_ColumnChangesByOperation ==
    [][ \A c \in 1..MaxCards :
          ColumnChanged(committed.cards, committed'.cards, c) =>
            LET old == committed.cards[c].column
                new == committed'.cards[c].column
            IN  \/ /\ ExecutesCard(c)
                   /\ <<old, new>> \in AcceptedMoves
                \/ /\ pc = "idle" /\ lastOp'.kind = "move" /\ lastOp'.card = c
                   /\ <<old, new>> \in AcceptedMoves
                \/ /\ pc = "idle" /\ lastOp'.kind = "update" /\ lastOp'.card = c
                   /\ new \in ColumnId
                \/ /\ pc = "idle" /\ lastOp'.kind = "stop_live_mode"
                   /\ old \in {"plan", "implement", "test", "review"}
                   /\ new = "backlog"
      ]_vars

\* A cycle that executed a backlog card is about to commit its move to plan.
C5_Witness ==
    /\ pc = "commit"
    /\ think.decision = "execute_card"
    /\ \E c \in 1..Len(committed.cards) :
         /\ think.card_ids = <<c>>
         /\ committed.cards[c].column = "backlog"
         /\ store.cards[c].column = "plan"

\* C6: with a Stage Executor that succeeds, every EXECUTE_CARD cycle is
\* successful and advances its card by exactly one column of
\* backlog -> plan -> implement -> test -> review -> done (so a backlog card
\* is done after five such cycles).
C6_OneColumnPerSuccessfulCycle ==
    [][ (/\ pc = "act"
         /\ think.decision = "execute_card"
         /\ CardExists(store.cards, think.card_ids[1])
         /\ act'.error \in {"none", "move_to_done_failed"})
        => /\ act'.success
           /\ store'.cards[think.card_ids[1]].column
                \in ClaimNext(store.cards[think.card_ids[1]].column)
      ]_vars

\* The columns a card can be worked on in: every column of the board and of
\* the orchestrator except done and the cancelled and archived ones.
WorkableColumns == AllColumns \ {"done", "cancelado", "archived"}

\* C7: a card is reported ready_to_execute if and only if its column is a
\* workable one (not done, not cancelled) and every card of its dependency
\* set exists and is in column done.
C7_ReadyIffWorkableAndDependenciesDone ==
    \A g \in 1..Len(store.goals) :
        LET st == GetCardsStatus(store.goals[g].cards, store.cards) IN
        \A i \in 1..Len(st) :
            st[i].ready_to_execute <=>
                /\ st[i].column \in WorkableColumns
                /\ \A d \in st[i].dependencies :
                     CardExists(store.cards, d) /\ store.cards[d].column = "done"

ReadyCards(S, g) ==
    SelectSeq(GetCardsStatus(S.goals[g].cards, S.cards),
              LAMBDA c : c.ready_to_execute)

CallsOfKind(kind) == {i \in 1..Len(calls) : calls[i].kind = kind}

\* C8: EXECUTE_CARD names exactly one card, the first ready card in the
\* order of the goal's card list; the Stage Executor is only called for that
\* card, once per stage, and no cycle calls both the Decomposer and the
\* Stage Executor.
C8_OneCardPerCycle ==
    /\ (InCycleAfterThink /\ think.decision = "execute_card") =>
         /\ Len(think.card_ids) = 1
         /\ pc = "act" =>
              /\ think.goal_id = GetActiveGoal(store.goals)
              /\ ReadyCards(store, think.goal_id) # <<>>
              /\ think.card_ids[1] = ReadyCards(store, think.goal_id)[1].id
    /\ \A i \in 1..Len(calls) :
         /\ calls[i].kind \in {"execute_plan", "execute_implement"} =>
              /\ think.decision = "execute_card"
              /\ calls[i].id = think.card_ids[1]
         /\ calls[i].kind = "decomposer" =>
              /\ think.decision = "decompose"
              /\ calls[i].id = think.goal_id
    /\ \A kind \in {"decomposer", "execute_plan", "execute_implement"} :
         Cardinality(CallsOfKind(kind)) <= 1

\* Two cards of the goal were ready and the cycle ran the stages of the
\* first one only.
C8_Witness ==
    /\ pc = "record"
    /\ think.decision = "execute_card"
    /\ Len(ReadyCards(committed, think.goal_id)) >= 2
    /\ think.card_ids = <<ReadyCards(committed, think.goal_id)[1].id>>
    /\ CallsOfKind("execute_plan") # {}

\* C9: a Goal's status becomes completed only in a cycle in which its card
\* list is non-empty and every card id of the list is an existing card in
\* column done.
C9_CompletedOnlyWhenAllCardsDone ==
    [][ \A g \in 1..Len(store.goals) :
          (store.goals[g].status # "completed"
           /\ store'.goals[g].status = "completed") =>
             /\ store.goals[g].cards # <<>>
             /\ \A c \in Range(store.goals[g].cards) :
                  CardExists(store.cards, c) /\ store.cards[c].column = "done"
      ]_vars

AllCardsDone(S, g) ==
    /\ S.goals[g].cards # <<>>
    /\ \A c \in Range(S.goals[g].cards) :
         CardExists(S.cards, c) /\ S.cards[c].column = "done"

\* C10: when usage is safe and all cards of the active Goal are in done, the
\* cycle decides COMPLETE_GOAL; its ACT step marks the Goal completed and
\* returns success with should_learn and a learning made of the goal and its
\* card count; its LEARN step hands that learning to the Learning Store
\* before the cycle commits.
C10_AllDoneCompletesAndLearns ==
    /\ (/\ pc = "act"
        /\ usage.is_safe_to_execute
        /\ GetActiveGoal(committed.goals) # 0
        /\ AllCardsDone(committed, GetActiveGoal(committed.goals))) =>
          /\ think.decision = "complete_goal"
          /\ think.goal_id = GetActiveGoal(committed.goals)
    /\ (pc \in {"record", "learn", "commit"} /\ think.decision = "complete_goal") =>
          /\ committed.goals[think.goal_id].status = "active"
          /\ store.goals[think.goal_id].status = "completed"
          /\ act.success /\ act.should_learn
          /\ act.learning = [kind |-> "goal", id |-> think.goal_id,
                             count |-> Len(committed.goals[think.goal_id].cards)]
    /\ (pc = "commit" /\ think.decision = "complete_goal") =>
          calls = <<Call("learning_store", think.goal_id)>>

\* A goal with a card in done: completed by ACT, learning handed over, the
\* cycle about to commit.
C10_Witness ==
    /\ pc = "commit"
    /\ think.decision = "complete_goal"
    /\ AllCardsDone(committed, think.goal_id)
    /\ store.goals[think.goal_id].status = "completed"
    /\ calls = <<Call("learning_store", think.goal_id)>>

\* C11 as stated: in every state a parent has at most one non-terminal fix
\* card, and a create_fix_card call for a parent that has one creates nothing
\* and returns it.
C11_AtMostOneActiveFixCard ==
    [][ /\ \A p \in 1..Len(committed'.cards) :
             CardExists(committed'.cards, p) =>
                Cardinality(ActiveFixCards(committed'.cards, p)) <= 1
        /\ (lastOp'.kind = "create_fix_card"
            /\ CardExists(committed.cards, lastOp'.parent_card_id)
            /\ ActiveFixCards(committed.cards, lastOp'.parent_card_id) # {}) =>
              /\ committed'.cards = committed.cards
              /\ lastOp'.card \in ActiveFixCards(committed.cards,
                                                lastOp'.parent_card_id)
      ]_vars

\* C11 amended: create_fix_card for an existing parent that has a non-terminal fix
\* card creates nothing and returns such a card, so two consecutive calls
\* return the same id; for a parent without one it creates exactly one, and
\* no call raises a parent's number of non-terminal fix cards above one.
\* (CardRepository.update can return a terminal fix card to a workable
\* column, so a parent may still end up with two.)
C11_CreateFixCardReturnsActiveFixCard ==
    [][ (lastOp'.kind = "create_fix_card"
         /\ CardExists(committed.cards, lastOp'.parent_card_id)) =>
          LET p      == lastOp'.parent_card_id
              before == ActiveFixCards(committed.cards, p)
              after  == ActiveFixCards(committed'.cards, p)
          IN  /\ before # {} =>
                   /\ committed'.cards = committed.cards
                   /\ lastOp'.card \in before
                   /\ ~lastOp'.created
              /\ before = {} =>
                   /\ lastOp'.created
                   /\ Len(committed'.cards) = Len(committed.cards) + 1
                   /\ lastOp'.card = Len(committed'.cards)
                   /\ after = {lastOp'.card}
              /\ (lastOp.kind = "create_fix_card"
                  /\ lastOp.parent_card_id = p /\ lastOp.card # 0) =>
                   lastOp'.card = lastOp.card
              /\ after = before \/ Cardinality(after) <= 1
      ]_vars

\* The second call, with another error context, returned the fix card the
\* first call had created.
C11_Witness ==
    /\ lastOp.kind = "create_fix_card"
    /\ lastOp.card # 0 /\ ~lastOp.created
    /\ lastOp.error_info = "second"
    /\ committed.cards[lastOp.card].test_error_context = "first"
    /\ committed.cards[lastOp.card].parent_card_id = lastOp.parent_card_id

FlaggedCards(cards_status) ==
    SelectSeq(cards_status, LAMBDA c : c.needs_fix)

CreatedInCycle == (Len(committed.cards) + 1)..Len(store.cards)

DecomposedOrders(props) == {props[i].order : i \in 1..Len(props)}

UnresolvableOrders(props) ==
    UNION {props[i].dependencies : i \in 1..Len(props)} \ DecomposedOrders(props)

\* C14: after DECOMPOSE every dependency id stored on a card is the id of a
\* card created in that same decomposition; a declared order index that
\* matches no created card is dropped, the action still succeeds and no id
\* of a card that does not exist is stored.
C14_DependenciesResolveToCreatedCards ==
    (pc = "record" /\ think.decision = "decompose") =>
        LET props == calls[1].cards IN
        /\ \A c \in CreatedInCycle :
              /\ store.cards[c].dependencies \subseteq CreatedInCycle
              /\ \A d \in store.cards[c].dependencies : CardExists(store.cards, d)
        /\ UnresolvableOrders(props) # {} =>
              /\ act.success
              /\ act.error = "none"
              /\ Len(store.cards) = Len(committed.cards) + Len(props)

\* A decomposition that declared an order index no card carries succeeded
\* and stored the dependencies that did resolve.
C14_Witness ==
    /\ pc = "record"
    /\ think.decision = "decompose"
    /\ act.success
    /\ UnresolvableOrders(calls[1].cards) # {}
    /\ \E c \in CreatedInCycle : store.cards[c].dependencies # {}

\* The cycle started from one pending goal, no active goal and no cards.
SinglePendingGoal == committed.goals = <<NewGoal>> /\ committed.cards = <<>>

\* The Decomposer's answer of the scenario: C1 without dependencies, C2
\* depending on the order index of C1.
TwoCardProposal ==
    <<[order |-> 1, dependencies |-> {}], [order |-> 2, dependencies |-> {1}]>>

\* C15: from a single pending goal and no active goal the first cycle
\* activates the goal and decides DECOMPOSE for it; when the Decomposer
\* proposes C1 (no dependencies) and C2 (depending on C1's order index), the
\* cycle leaves the goal's card list [C1, C2], both cards in backlog, C2
\* depending on exactly C1's id, and C1 the only ready card.
C15_FirstCycleActivatesAndDecomposes ==
    (SinglePendingGoal /\ InCycleAfterThink /\ usage.is_safe_to_execute) =>
        /\ think.decision = "decompose"
        /\ think.goal_id = 1
        /\ store.goals[1].status = "active"
        /\ (pc \in {"record", "commit"} /\ act.success
              /\ calls[1].cards = TwoCardProposal) =>
              /\ store.goals[1].cards = <<1, 2>>
              /\ Len(store.cards) = 2
              /\ store.cards[1].column = "backlog"
              /\ store.cards[2].column = "backlog"
              /\ store.cards[1].dependencies = {}
              /\ store.cards[2].dependencies = {1}
              /\ Len(ReadyCards(store, 1)) = 1
              /\ ReadyCards(store, 1)[1].id = 1

\* The first cycle of a single pending goal is about to commit the two
\* proposed cards.
C15_Witness ==
    /\ SinglePendingGoal
    /\ pc = "commit"
    /\ think.decision = "decompose"
    /\ act.success
    /\ calls[1] = DecomposerCall(1, TwoCardProposal)
    /\ store.goals[1].cards = <<1, 2>>

\* What the next cycle's THINK decides on the store S while usage is within
\* the limit.
NextDecision(S) == StepThink(ParseUsageOutput(0, 0), S).think

\* C16: whenever DECOMPOSE ends in failure (the Decomposer reports failure
\* or an exception is raised anywhere inside the action) the goal is still
\* active, no card has been attached to its card list, and the next cycle
\* decides DECOMPOSE for the same goal again.
C16_FailedDecomposeAttachesNothing ==
    [][(pc = "act" /\ pc' = "record" /\ think.decision = "decompose"
          /\ ~act'.success) =>
         /\ store'.goals[think.goal_id].status = "active"
         /\ store'.goals[think.goal_id].cards = <<>>
         /\ NextDecision(store').decision = "decompose"
         /\ NextDecision(store').goal_id = think.goal_id]_vars

\* C17: a failure of the ACT step never aborts the cycle: the step ends
\* with a failed result carrying an error string and hands over to RECORD,
\* RECORD writes the failure down and hands over to LEARN or the commit, and
\* from there the cycle's writes are committed unless a storage error
\* unwinds the cycle.
C17_ActFailureIsRecordedAndCommitted ==
    [][/\ pc = "act" =>
            /\ pc' = "record"
            /\ ~act'.success => act'.error \notin {"none", "unset"}
       /\ (pc = "record" /\ ~act.success) =>
            \/ /\ pc' \in {"learn", "commit"}
               /\ store' = store
               /\ recorded' = RecordStep(think, act)
            \/ pc' = "idle" /\ committed' = committed
       /\ (pc = "commit" /\ ~act.success) =>
            /\ pc' = "idle"
            /\ committed' = store \/ committed' = committed]_vars

\* An exception inside ACT was recorded as a failure and the cycle is about
\* to commit what ACT wrote before it.
C17_Witness ==
    /\ pc = "commit"
    /\ ~act.success
    /\ act.error = "exception"
    /\ recorded = RecordStep(think, act)
    /\ store # committed

\* C18: a cycle is atomic with respect to the store: when a step raises an
\* exception nothing handles (a storage error in THINK, RECORD or LEARN), the
\* attempt ends and the visible store is the store the attempt started
\* from: no goal status change, card column change or card creation of the
\* attempt remains.
C18_RaisedCycleLeavesStoreUnchanged ==
    [][(pc \in {"think", "record", "learn"} /\ pc' = "idle"
          /\ lastOp.kind = "cycle") =>
         /\ committed' = lastOp.before
         /\ store' = lastOp.before]_vars

\* Attempts a loop task has begun since its interval began.
Attempts(t) == Len(t.errors) + (IF t.pc \in {"cycle", "closing"} THEN 1 ELSE 0)

Last(q) == q[Len(q)]

\* C19: within one interval the Cycle Runner attempts the cycle at most 3
\* times; every attempt but the first follows a 'database is locked' error,
\* after a sleep of 3 seconds before the second attempt and 6 seconds before
\* the third; after the third locked failure, or after any other error, it
\* sleeps until the next interval without another attempt.
C19_BoundedRetryWithLinearBackoff ==
    \A k \in 1..Len(runner.tasks) :
        LET t == runner.tasks[k]
            n == Attempts(t)
        IN  /\ n <= 3
            /\ \A i \in 1..(n - 1) : t.errors[i] = "locked"
            /\ t.waits = SubSeq(<<3, 6>>, 1, Len(t.waits))
            /\ t.pc \in {"cycle", "closing"} => Len(t.waits) = n - 1
            /\ t.pc = "backoff" =>
                  /\ Last(t.errors) = "locked"
                  /\ Len(t.waits) = n /\ n < 3
            /\ t.pc = "interval" =>
                  /\ Len(t.waits) = n - 1
                  /\ Last(t.errors) = "locked" => n = 3
            /\ (t.errors # <<>> /\ Last(t.errors) = "error") =>
                  t.pc \in {"interval", "finished"}

\* Three attempts of one interval ended with 'database is locked', 3 and 6
\* seconds apart, and the task sleeps until the next interval.
C19_Witness ==
    \E k \in 1..Len(runner.tasks) :
        /\ runner.tasks[k].pc = "interval"
        /\ runner.tasks[k].errors = <<"locked", "locked", "locked">>
        /\ runner.tasks[k].waits = <<3, 6>>

\* Loop tasks inside _execute_cycle: the call has not returned and its
\* session is open.
InCycle == {k \in 1..Len(runner.tasks) : runner.tasks[k].pc \in {"cycle", "closing"}}

\* C20: at most one cycle is executing at any time, under every
\* interleaving of start(), stop() and the loop tasks.
C20_AtMostOneCycleExecuting == Cardinality(InCycle) <= 1

\* C21: stop() called while a cycle is in flight lets that cycle run to
\* completion: a loop task leaves _execute_cycle only because the cycle
\* returned or raised on its own, never because stop() interrupted it.
C21_StopLetsCycleComplete ==
    [][\A k \in 1..Len(runner.tasks) :
         runner.tasks[k].pc = "cycle" =>
            /\ runner'.tasks[k].pc \in {"cycle", "interval", "backoff"}
            /\ runner'.tasks[k].pc # "cycle" =>
                 Len(runner'.tasks[k].errors) = Len(runner.tasks[k].errors) + 1]_vars

TaskPc(k) == IF k \in 1..Len(runner.tasks) THEN runner.tasks[k].pc ELSE "none"

Sleeping == {"interval", "backoff"}

\* C22: once started and until stop() is called the loop keeps running:
\* whatever the outcome of a cycle, the loop task goes on to a sleep and
\* from the sleep to another cycle; only a stop() ends a loop task.
C22_LoopSurvivesEveryOutcome ==
    /\ [][\A k \in 1..Len(runner.tasks) :
            LET t == runner.tasks[k]
                u == runner'.tasks[k]
            IN  /\ (t.pc = "cycle" /\ u.pc # "cycle") =>
                      (u.pc \in Sleeping \/ ~runner'.running)
                /\ (t.pc \in Sleeping /\ u.pc # t.pc) =>
                      (u.pc = "cycle" \/ ~runner'.running)]_vars
    /\ \A k \in 1..MaxTasks :
         (TaskPc(k) \in Sleeping) ~> (TaskPc(k) = "cycle" \/ ~runner.running)

\* The loop is running and sleeps until the next interval after a cycle
\* that raised an error other than a locked database.
C22_Witness ==
    /\ runner.running
    /\ \E k \in 1..Len(runner.tasks) :
         /\ runner.tasks[k].pc = "interval"
         /\ Last(runner.tasks[k].errors) = "error"

StageCalls == CallsOfKind("execute_plan") \cup CallsOfKind("execute_implement")

\* C23: in every cycle the Stage Executor is called at most once for any
\* given card, and not at all unless the decision is EXECUTE_CARD: one
\* EXECUTE_CARD cycle never runs two stages of the same card.
C23_ExecutorOncePerCardPerCycle ==
    /\ StageCalls # {} => think.decision = "execute_card"
    /\ \A i \in StageCalls : \A j \in StageCalls :
         calls[i].id = calls[j].id => i = j

\* C24: EXECUTE_CARD changes a card's column only after the Stage Executor
\* reported success: when the Stage Executor reports failure the action
\* returns failure with the cause and the card is still in the column it had
\* when the cycle began, and a column only changes in an action whose
\* Stage Executor calls all succeeded.
C24_ColumnChangesOnlyAfterExecutorSuccess ==
    [][(pc = "act" /\ think.decision = "execute_card"
          /\ CardExists(store.cards, think.card_ids[1])) =>
         LET c == think.card_ids[1] IN
         /\ act'.error \in {"plan_failed", "implement_failed"} =>
              /\ ~act'.success
              /\ store'.cards[c].column = lastOp.before.cards[c].column
         /\ store'.cards[c].column # store.cards[c].column =>
              act'.error \notin {"plan_failed", "implement_failed"}]_vars

WorkDecisions == {"decompose", "execute_card", "create_fix", "complete_goal"}

Nullable(b) == IF b THEN "true" ELSE "false"

\* C25: every cycle that performs work (DECOMPOSE, EXECUTE_CARD, CREATE_FIX
\* or COMPLETE_GOAL) appends one Action record that carries the goal id, the
\* action type, the success flag and the error of that cycle.
C25_ActionRecordCarriesOutcome ==
    (pc \in {"learn", "commit"} /\ think.decision \in WorkDecisions) =>
        /\ recorded.action # NoAction
        /\ recorded.action.goal_id = think.goal_id
        /\ recorded.action.action_type = think.decision
        /\ recorded.action.success = Nullable(act.success)
        /\ recorded.action.error = act.error

\* C26: a failure of the Learning Store during promotion never fails the
\* cycle: LEARN hands over to the commit with every goal status as ACT left
\* it, and a learning is attached to the goal of the cycle only when the
\* Learning Store returned an id.
C26_LearningStoreFailureIsHarmless ==
    [][/\ (pc = "learn" /\ pc' # "idle") =>
            /\ pc' = "commit"
            /\ GoalStatuses(store') = GoalStatuses(store)
            /\ store'.cards = store.cards
            /\ \A g \in 1..Len(store.goals) :
                 store'.goals[g].learning # store.goals[g].learning =>
                    g = think.goal_id /\ recorded'.learning_id = "id"
            /\ recorded'.learning_id = "null" => store' = store
       /\ (pc = "commit" /\ recorded.learning_id = "null") =>
            /\ pc' = "idle"
            /\ committed' = store \/ committed' = committed]_vars

\* The Learning Store failed for a goal COMPLETE_GOAL has completed: the
\* cycle is about to commit the goal completed and without a learning.
C26_Witness ==
    /\ pc = "commit"
    /\ think.decision = "complete_goal"
    /\ recorded.learning_id = "null"
    /\ store.goals[think.goal_id].status = "completed"
    /\ ~store.goals[think.goal_id].learning

\* THINK has found usage over the limit while a goal was active.
OverLimitThink ==
    /\ pc = "think" /\ pc' = "act"
    /\ UsageOver(usage')
    /\ GetActiveGoal(store.goals) # 0

PausedGoals(S) == {g \in 1..Len(S.goals) : S.goals[g].status = "paused"}

C28_ThinkHasNoSideEffects ==
    [][/\ pc = "think" =>
            /\ store' = store
            /\ committed' = committed
       /\ (pc \in {"record", "learn"} /\ pc' # "idle") =>
            /\ GoalStatuses(store') = GoalStatuses(store)
            /\ store'.cards = store.cards]_vars

StepOrder ==
    {<<"idle", "read">>, <<"read", "query">>, <<"query", "think">>,
     <<"think", "act">>, <<"act", "record">>, <<"record", "learn">>,
     <<"record", "commit">>, <<"learn", "commit">>, <<"commit", "idle">>}

\* C29: within a cycle the steps occur strictly in the order Read, Query,
\* Think, Act, Record and then Learn (a raised exception ends the cycle);
\* Learn occurs only when the Act result asks for it with a learning text;
\* and the transaction is committed after the last step, not before.
C29_StepsInOrderCommitLast ==
    [][/\ pc' # pc => (<<pc, pc'>> \in StepOrder \/ pc' = "idle")
       /\ (pc = "record" /\ pc' # "idle") =>
            (pc' = "learn" <=> (act.should_learn /\ act.learning # NoLearning))
       /\ (pc # "idle" /\ committed' # committed) => pc = "commit"]_vars

BroadcastMove == lastOp.kind = "move_card_with_broadcast"

\* C30: a failure of the admin broadcast or of the live broadcast never fails
\* a card move: whenever the move of the repository is valid (the card exists
\* and the transition is allowed) the card's column is changed and the move
\* returns the card with no error, whether or not the broadcasts raise; and a
\* move that is not valid changes no card.
C30_BroadcastFailureNeverFailsTheMove ==
    [][BroadcastMove' =>
         LET c  == lastOp'.card_id
             to == lastOp'.to
         IN  IF CardExists(committed.cards, c)
                /\ to \in ALLOWED_TRANSITIONS(committed.cards[c].column)
             THEN /\ committed'.cards[c].column = to
                  /\ lastOp'.card = c
                  /\ lastOp'.error = "none"
             ELSE /\ committed'.cards = committed.cards
                  /\ lastOp'.card = 0
                  /\ lastOp'.error # "none"]_vars

C30_Witness ==
    /\ BroadcastMove
    /\ lastOp.admin = "raised" /\ lastOp.live = "raised"
    /\ lastOp.from = "review" /\ lastOp.to = "done"
    /\ lastOp.error = "none" /\ lastOp.card = lastOp.card_id
    /\ committed.cards[lastOp.card_id].column = "done"

DoneCards(cards) ==
    {c \in 1..Len(cards) : CardExists(cards, c) /\ cards[c].column = "done"}

\* A done card is not picked by THINK, and EXECUTE_CARD on it calls no Stage
\* Executor and leaves the store as it is.
DoneIsNotExecuted ==
    /\ (pc = "act" /\ think.decision = "execute_card") =>
          think.card_ids[1] \notin DoneCards(store.cards)
    /\ \A c \in DoneCards(store.cards) :
         \A p \in PlanResults, i \in ImplementResults :
            LET o == ActExecuteCard(store, c, p, i) IN
            /\ o.store = store
            /\ o.calls = <<>>
            /\ o.act.success

\* C31 (as claimed): done is terminal for a card: it is never picked as
\* ready, EXECUTE_CARD on it invokes no Stage Executor and changes nothing,
\* and no operation moves it to any other column.
C31_DoneIsTerminal ==
    [][/\ DoneIsNotExecuted
       /\ \A c \in DoneCards(committed.cards) :
            CardExists(committed'.cards, c) =>
                committed'.cards[c].column = "done"]_vars

\* C31 (amended): a done card is never picked as ready, EXECUTE_CARD on it
\* invokes no Stage Executor and changes nothing, and no step of a cycle
\* changes its column; CardRepository.move, asked from outside, takes it from
\* done to archived or to cancelado and to no other column.
C31_DoneIsTerminalForTheEngine ==
    [][/\ DoneIsNotExecuted
       /\ \A c \in DoneCards(store.cards) :
            /\ (pc # "idle" /\ pc' # "idle") => c \in DoneCards(store'.cards)
            /\ (lastOp'.kind = "move" /\ lastOp'.card = c) =>
                 \/ committed'.cards[c].column = "done"
                 \/ committed'.cards[c].column \in {"archived", "cancelado"}
       /\ \A c \in DoneCards(committed.cards) :
            pc # "idle" => c \in DoneCards(committed'.cards)]_vars

C31_Witness ==
    /\ lastOp.kind = "move" /\ lastOp.from = "done" /\ lastOp.to = "archived"
    /\ lastOp.error = "none"
    /\ committed.cards[lastOp.card].column = "archived"
    /\ \E g \in 1..Len(committed.goals) :
         lastOp.card \in Range(committed.goals[g].cards)

IsPrefix(s, t) == Len(s) <= Len(t) /\ \A i \in 1..Len(s) : s[i] = t[i]

\* The card list of every goal only grows at its end, and only in a cycle
\* that decided DECOMPOSE or CREATE_FIX.
CardListsAppendOnly ==
    \A g \in 1..Len(committed.goals) :
        /\ IsPrefix(committed.goals[g].cards, committed'.goals[g].cards)
        /\ committed'.goals[g].cards # committed.goals[g].cards =>
             /\ pc # "idle"
             /\ think.decision \in {"decompose", "create_fix"}
             /\ think.goal_id = g

\* CREATE_FIX for a card of a goal: a fix card it creates is in the goal's
\* card list afterwards.
CreateFixAttachesFixCard ==
    \A g \in 1..Len(store.goals) :
        \A c \in Range(store.goals[g].cards) :
            LET o == ActCreateFix(store, c) IN
            Len(o.store.cards) > Len(store.cards) =>
                Len(o.store.cards) \in Range(o.store.goals[g].cards)

\* C32: a Goal's card-id list is append-only and is changed only by DECOMPOSE
\* and CREATE_FIX: DECOMPOSE appends the id of every card it creates,
\* CREATE_FIX appends the id of a newly created fix card, and no other action
\* removes, reorders or adds ids.
C32_CardListAppendOnlyByDecomposeAndCreateFix ==
    [][/\ CardListsAppendOnly
       /\ (pc = "act" /\ think.decision = "decompose" /\ act'.success) =>
             \A c \in (Len(store.cards) + 1)..Len(store'.cards) :
                 c \in Range(store'.goals[think.goal_id].cards)
       /\ CreateFixAttachesFixCard]_vars


\* C33: THINK returns the resource-safety WAIT if and only if the larger of
\* the session and the daily percentage is strictly greater than the
\* threshold: a snapshot equal to the threshold does not block the cycle.
C33_WaitsExactlyWhenOverThreshold ==
    (pc = "act" /\ usage.error = "none") =>
        ((think.decision = "wait" /\ think.reason = "usage_limit")
            <=> UsageOver(usage))


Submitted(g) == g \in 1..Len(committed.goals)

Completed(g) == Submitted(g) /\ committed.goals[g].status = "completed"

\* C34: when usage is always safe, the Decomposer and the Stage Executor
\* always succeed, no storage error occurs and the loop keeps running, every
\* submitted Goal eventually reaches status completed, and goals are
\* completed in submission order.
C34_EverySubmittedGoalCompletes ==
    /\ \A g \in 1..MaxGoals : Submitted(g) ~> Completed(g)
    /\ [](\A g \in 1..MaxGoals : \A h \in 1..MaxGoals :
            (Completed(g) /\ h < g) => Completed(h))


\* Every non-empty set of the cards has a member that depends on none of
\* them: the dependency relation on ids has no cycle (and no loop).
Acyclic(cards, ids) ==
    \A X \in SUBSET ids :
        X # {} => \E c \in X : cards[c].dependencies \cap X = {}

DecomposeSucceeded ==
    pc = "record" /\ think.decision = "decompose" /\ act.success

\* C35: after any successful DECOMPOSE the dependency relation stored on the
\* goal's cards is acyclic and no card lists its own id as a dependency,
\* whatever list of cards the Decomposer returned; hence, when the goal has
\* cards that are not done, at least one of them is ready.
C35_DecomposedDependenciesAreAcyclic ==
    DecomposeSucceeded =>
        LET ids == Range(store.goals[think.goal_id].cards)
            st  == GetCardsStatus(store.goals[think.goal_id].cards, store.cards)
        IN  /\ \A c \in ids : c \notin store.cards[c].dependencies
            /\ Acyclic(store.cards, ids)
            /\ (\E i \in 1..Len(st) : st[i].column # "done") =>
                  \E i \in 1..Len(st) : st[i].ready_to_execute


\* C36: a DECOMPOSE action that returns success leaves the Goal with at least
\* one attached card (also when the Decomposer reports success with an empty
\* list), so THINK never decides DECOMPOSE again for a goal whose
\* decomposition succeeded.
C36_SuccessfulDecomposeAttachesACard ==
    [][(pc = "act" /\ think.decision = "decompose" /\ act'.success) =>
          /\ store'.goals[think.goal_id].cards # <<>>
          /\ NextDecision(store').decision # "decompose"]_vars


\* The ids of the created cards whose proposal carries order d.
CreatedWithOrder(props, base, d) ==
    {base + j : j \in {k \in 1..Len(props) : props[k].order = d}}

\* C37: in DECOMPOSE each proposed card yields exactly one created card, and
\* the i-th created card receives exactly the resolvable dependencies its own
\* proposal declares (each resolved to a card created for that order index),
\* also when two proposed cards carry the same order index.
C37_EachCardGetsItsOwnDependencies ==
    DecomposeSucceeded =>
        LET props == calls[1].cards
            base  == Len(committed.cards)
        IN  /\ Len(store.cards) = base + Len(props)
            /\ \A i \in 1..Len(props) :
                 LET deps == store.cards[base + i].dependencies IN
                 /\ \A c \in deps :
                      \E d \in props[i].dependencies :
                          c \in CreatedWithOrder(props, base, d)
                 /\ \A d \in props[i].dependencies :
                      CreatedWithOrder(props, base, d) # {} =>
                          deps \cap CreatedWithOrder(props, base, d) # {}


StatusStep(old, new) ==
    \/ old = new
    \/ old = "pending" /\ new = "active"
    \/ old = "active" /\ new = "completed"

\* Inside a cycle a status changes from pending to active in THINK, for the
\* goal THINK selects, and from active to completed in ACT under
\* COMPLETE_GOAL; the committed statuses change by the same two steps only;
\* and THINK never names a goal that is completed.
EngineStatusChanges ==
    /\ \A g \in 1..Len(store.goals) :
         (pc # "idle" /\ pc' # "idle"
            /\ store'.goals[g].status # store.goals[g].status) =>
              \/ /\ store.goals[g].status = "pending"
                 /\ store'.goals[g].status = "active"
                 /\ pc = "think" /\ think'.goal_id = g
              \/ /\ store.goals[g].status = "active"
                 /\ store'.goals[g].status = "completed"
                 /\ pc = "act" /\ think.decision = "complete_goal"
                 /\ think.goal_id = g
    /\ \A g \in 1..Len(committed.goals) :
         StatusStep(committed.goals[g].status, committed'.goals[g].status)
    /\ (pc = "think" /\ pc' = "act" /\ think'.goal_id # 0) =>
          committed.goals[think'.goal_id].status # "completed"

CompleteGoalRan ==
    /\ pc \in {"record", "learn", "commit"}
    /\ think.decision = "complete_goal"
    /\ act.success

CompleteGoalDecidedAgain ==
    /\ NextDecision(committed').decision = "complete_goal"
    /\ NextDecision(committed').goal_id = think.goal_id

UsageCheckFailed == pc = "act" /\ usage.error # "none"

\* C39: every failure of the usage check ends in a definite verdict: a
\* non-zero exit code or a timeout gives is_safe_to_execute = false and the
\* cycle decides the usage-limit WAIT; a missing command or any other
\* exception gives is_safe_to_execute = true and the cycle decides what it
\* decides when usage is safe; in every failure both percentages are 0 and
\* the error is set.
C39_UsageCheckFailureHasAVerdict ==
    UsageCheckFailed =>
        /\ usage.session_used_percent = 0
        /\ usage.daily_used_percent = 0
        /\ usage.error \in {"exit_code", "timeout", "not_found", "exception"}
        /\ usage.error \in {"exit_code", "timeout"} =>
              /\ ~usage.is_safe_to_execute
              /\ think.decision = "wait" /\ think.reason = "usage_limit"
        /\ usage.error \in {"not_found", "exception"} =>
              /\ usage.is_safe_to_execute
              /\ think = NextDecision(committed)

\* The usage command timed out while a goal was pending: the cycle waits and
\* the goal is still pending.
C39_Witness ==
    /\ UsageCheckFailed
    /\ usage.error = "timeout"
    /\ think.decision = "wait"
    /\ PendingGoals(store.goals) # {}


\* In the runs in which nothing fails a card carries a plan pointer exactly
\* when a PLAN stage of it has succeeded, and the cycle that ran PLAN ran
\* IMPLEMENT with success as well.
StagesSucceededBefore(c) == CardExists(store.cards, c) /\ store.cards[c].spec_path

\* C40: a stage of a card whose Stage Executor call succeeded is never
\* executed again for that card in a later cycle: no cycle calls PLAN or
\* IMPLEMENT for a card whose PLAN and IMPLEMENT have succeeded before.
C40_SucceededStageIsNotExecutedAgain ==
    [][pc = "act" =>
         \A c \in 1..Len(store.cards) :
            StagesSucceededBefore(c) =>
               /\ Call("execute_plan", c) \notin Range(calls')
               /\ Call("execute_implement", c) \notin Range(calls')]_vars

====
